---- MODULE Spec2Model ----
(***************************************************************************)
(* A model of the notion-assistant toolkit: the attribute extractors, the  *)
(* fuzzy database matcher, the markdown-to-block converter and the page    *)
(* mutators.  Every operation of the program is synchronous and            *)
(* single-threaded, so an invocation is one atomic step.  The only state   *)
(* that survives an invocation is the caller's page object (a Python dict  *)
(* the mutators change in place) and the calls already sent to the         *)
(* external workspace API.                                                 *)
(*                                                                         *)
(* Python values are modelled as follows.  A dict is a function whose      *)
(* DOMAIN is its key set, a list is a sequence, a str that the code takes  *)
(* apart (ids, titles, page text) is a sequence of one-character strings.  *)
(* An optional value is a sequence of length 0 (None / key missing) or 1.  *)
(* An invocation ends with an outcome: [raised, value, calls].             *)
(***************************************************************************)
EXTENDS Integers, Sequences, FiniteSets, TLC

VARIABLES
    op,      \* the operation that is invoked
    input,   \* the arguments of the operation
    page,    \* the caller's page object, mutated in place by the mutators
    trace    \* one outcome record per invocation, oldest first

vars == <<op, input, page, trace>>

(* ---------------------------------------------------------------------- *)
(* Bounds                                                                 *)
(* ---------------------------------------------------------------------- *)

\* how many times in succession an operation is invoked on the same input
MaxInvocations == 2

\* longest block sequence handed to append_blocks_to_page
MaxBlocks == 181

(* ---------------------------------------------------------------------- *)
(* Python helpers                                                         *)
(* ---------------------------------------------------------------------- *)

None == <<>>
Some(v) == <<v>>
IsNone(o) == o = <<>>

Min(a, b) == IF a < b THEN a ELSE b

\* s[a:b] for 0 <= a, on a list
Slice(s, a, b) == SubSeq(s, a + 1, Min(b, Len(s)))

\* d.get(k): the optional value under key k
Get(d, k) == IF k \in DOMAIN d THEN Some(d[k]) ELSE None

\* the outcome of an invocation that returned v after sending calls
Returned(v, calls) == [raised |-> "none", value |-> v, calls |-> calls]
\* the outcome of an invocation that raised exc after sending calls
Raised(exc, calls) == [raised |-> exc, value |-> None, calls |-> calls]

NoPage == [id |-> <<>>]

PageIds == { <<"a", "-", "1">>, <<"b", "2">> }

(* ---------------------------------------------------------------------- *)
(* append_blocks_to_page                                                  *)
(* ---------------------------------------------------------------------- *)

\* the external API's per-call limit on children
ChunkSize == 90

AppendCall(page_id, children) ==
    [api |-> "blocks.children.append", block_id |-> page_id, children |-> children]

RetrieveCall(page_id) == [api |-> "pages.retrieve", page_id |-> page_id]

\* a chunk that stops one block short: blocks[index : index + 89]
ChunkShort(blocks, index) == Slice(blocks, index, index + ChunkSize - 1)

\* blocks[index : index + 90]
ChunkAt(blocks, index) == Slice(blocks, index, index + ChunkSize)

\* for index in range(0, len(blocks), 90): notion.blocks.children.append(...)
RECURSIVE AppendLoop(_, _, _)
AppendLoop(page_id, blocks, index) ==
    IF index >= Len(blocks) THEN <<>>
    ELSE <<AppendCall(page_id, ChunkAt(blocks, index))>>
         \o AppendLoop(page_id, blocks, index + ChunkSize)

\* the whole function: the append calls, then the page is retrieved and returned
append_blocks_to_page(page_id, blocks) ==
    LET calls == AppendLoop(page_id, blocks, 0) \o <<RetrieveCall(page_id)>>
    IN  Returned(Some([object |-> "page", id |-> page_id]), calls)

BlockTypes == <<"divider", "paragraph", "heading_1", "bulleted_list_item", "image">>

\* a block sequence of n blocks; every block carries its position, so a lost,
\* repeated or displaced block shows
BlockSeq(n, shift) ==
    [i \in 1..n |-> [type |-> BlockTypes[((i + shift) % Len(BlockTypes)) + 1],
                     ordinal |-> i]]

AppendInputs ==
    { [page_id |-> p, blocks |-> BlockSeq(n, s)] :
        p \in PageIds, n \in 0..MaxBlocks, s \in 0..1 }

InitAppend ==
    /\ op = "append_blocks_to_page"
    /\ input \in AppendInputs
    /\ page = NoPage
    /\ trace = <<>>

AppendBlocksToPage ==
    /\ op = "append_blocks_to_page"
    /\ Len(trace) < MaxInvocations
    /\ trace' = Append(trace, append_blocks_to_page(input.page_id, input.blocks))
    /\ UNCHANGED <<op, input, page>>

NextAppend == AppendBlocksToPage

SpecAppend == InitAppend /\ [][NextAppend]_vars

(* ---------------------------------------------------------------------- *)
(* C1                                                                     *)
(* ---------------------------------------------------------------------- *)

AppendsOf(outcome) ==
    SelectSeq(outcome.calls, LAMBDA c : c.api = "blocks.children.append")

RECURSIVE ConcatChildren(_)
ConcatChildren(calls) ==
    IF calls = <<>> THEN <<>>
    ELSE Head(calls).children \o ConcatChildren(Tail(calls))

\* C1: for a block sequence of length N, append_blocks_to_page issues exactly
\* ceil(N/90) append calls, each with at most 90 children and every call but
\* the last with exactly 90, and the children of the calls, concatenated in
\* call order, are the input sequence.
C1_Chunking ==
    \A t \in 1..Len(trace) :
        LET appends == AppendsOf(trace[t])
            n == Len(input.blocks)
        IN  op = "append_blocks_to_page" =>
            /\ Len(appends) = (n + 89) \div 90
            /\ \A k \in 1..Len(appends) :
                /\ Len(appends[k].children) <= 90
                /\ k < Len(appends) => Len(appends[k].children) = 90
                /\ appends[k].block_id = input.page_id
            /\ ConcatChildren(appends) = input.blocks

\* 181 blocks were appended in calls of sizes 90, 90, 1
C1_Witness ==
    /\ op = "append_blocks_to_page"
    /\ Len(input.blocks) = 181
    /\ Len(trace) >= 1
    /\ LET appends == AppendsOf(trace[1])
       IN  /\ Len(appends) = 3
           /\ Len(appends[1].children) = 90
           /\ Len(appends[2].children) = 90
           /\ Len(appends[3].children) = 1

(* ---------------------------------------------------------------------- *)
(* update_refs_property                                                   *)
(* ---------------------------------------------------------------------- *)

\* longest titles list handed to update_refs_property
MaxTitles == 3

RECURSIVE LStrip(_)
LStrip(s) == IF s /= <<>> /\ Head(s) = " " THEN LStrip(Tail(s)) ELSE s

RECURSIVE RStrip(_)
RStrip(s) ==
    IF s /= <<>> /\ s[Len(s)] = " " THEN RStrip(SubSeq(s, 1, Len(s) - 1)) ELSE s

\* str.strip()
Strip(s) == RStrip(LStrip(s))

UpdateCall(page_id, properties) ==
    [api |-> "pages.update", page_id |-> page_id, properties |-> properties]

\* a loop that passes over a title without an entry instead of raising
RECURSIVE RefsLoopSkipping(_, _, _)
RefsLoopSkipping(prop, titles, title_to_id) ==
    IF titles = <<>> THEN [raised |-> "none", prop |-> prop]
    ELSE LET ref_id == Get(title_to_id, Strip(Head(titles)))
         IN  IF IsNone(ref_id)
             THEN RefsLoopSkipping(prop, Tail(titles), title_to_id)
             ELSE IF "relation" \notin DOMAIN prop
             THEN [raised |-> "KeyError", prop |-> prop]
             ELSE RefsLoopSkipping(
                      [prop EXCEPT !.relation = Append(@, [id |-> ref_id[1]])],
                      Tail(titles), title_to_id)

\* the for loop of update_refs_property over the titles still to do; prop is
\* the property dict of the caller's page, changed in place as the loop goes
RECURSIVE RefsLoop(_, _, _)
RefsLoop(prop, titles, title_to_id) ==
    IF titles = <<>> THEN [raised |-> "none", prop |-> prop]
    ELSE LET ref_id == Get(title_to_id, Strip(Head(titles)))
         IN  IF IsNone(ref_id)
             THEN [raised |-> "ValueError", prop |-> prop]
             ELSE IF "relation" \notin DOMAIN prop
             THEN [raised |-> "KeyError", prop |-> prop]
             ELSE RefsLoop(
                      [prop EXCEPT !.relation = Append(@, [id |-> ref_id[1]])],
                      Tail(titles), title_to_id)

\* the except KeyError clauses of the mutators format page.id and page.title,
\* attributes a dict does not have: the handler itself raises
KeyErrorHandler == "AttributeError"

\* the whole function: [outcome, page], page being the caller's page object
\* as the invocation leaves it
update_refs_property(pg, property_name, titles, title_to_id) ==
    IF property_name \notin DOMAIN pg.properties
    THEN [outcome |-> Raised("KeyError", <<>>), page |-> pg]
    ELSE LET r == RefsLoop(pg.properties[property_name], titles, title_to_id)
             pg2 == [pg EXCEPT !.properties[property_name] = r.prop]
         IN  CASE r.raised = "none" ->
                    [outcome |-> Returned(None,
                         <<UpdateCall(pg.id, property_name :> r.prop)>>),
                     page |-> pg2]
               [] r.raised = "KeyError" ->
                    [outcome |-> Raised(KeyErrorHandler, <<>>), page |-> pg2]
               [] OTHER ->
                    [outcome |-> Raised(r.raised, <<>>), page |-> pg2]

RefIds == { <<"r", "-", "1">>, <<"r", "-", "2">> }

\* a page's property dicts: a relation property (empty or already holding a
\* reference) or a property of another type, which has no "relation" key
PropDicts ==
    { [type |-> "relation", relation |-> <<>>],
      [type |-> "relation", relation |-> <<[id |-> <<"r", "-", "0">>]>>],
      [type |-> "rich_text"] }

RefsPages ==
    { [id |-> i, properties |-> ("Areas" :> d)] : i \in PageIds, d \in PropDicts }
    \cup { [id |-> i, properties |-> <<>>] : i \in PageIds }

TitlePool == { <<"A">>, <<" ", "A", " ">>, <<"B">>, <<"Z">> }

SeqsUpTo(S, n) == UNION { [1..k -> S] : k \in 0..n }

TitleToIds ==
    { <<>>,
      <<"A">> :> <<"r", "-", "1">>,
      (<<"A">> :> <<"r", "-", "1">>) @@ (<<"B">> :> <<"r", "-", "2">>) }

RefsInputs ==
    { [property_name |-> "Areas", titles |-> ts, title_to_id |-> m] :
        ts \in SeqsUpTo(TitlePool, MaxTitles), m \in TitleToIds }

InitRefs ==
    /\ op = "update_refs_property"
    /\ input \in RefsInputs
    /\ page \in RefsPages
    /\ trace = <<>>

UpdateRefsProperty ==
    /\ op = "update_refs_property"
    /\ Len(trace) < MaxInvocations
    /\ LET r == update_refs_property(page, input.property_name, input.titles,
                                     input.title_to_id)
       IN  /\ trace' = Append(trace, r.outcome)
           /\ page' = r.page
    /\ UNCHANGED <<op, input>>

NextRefs == UpdateRefsProperty

SpecRefs == InitRefs /\ [][NextRefs]_vars

(* ---------------------------------------------------------------------- *)
(* C2                                                                     *)
(* ---------------------------------------------------------------------- *)

Unresolved(titles, title_to_id) ==
    { i \in 1..Len(titles) : Strip(titles[i]) \notin DOMAIN title_to_id }

HasRelationList(pg, property_name) ==
    /\ property_name \in DOMAIN pg.properties
    /\ "relation" \in DOMAIN pg.properties[property_name]

C8_Idempotent ==
    (/\ op = "update_refs_property"
     /\ Unresolved(input.titles, input.title_to_id) = {}
     /\ Len(trace) >= 2
     /\ trace[1].raised = "none"
     /\ trace[2].raised = "none")
    => /\ trace[2].calls[1].properties = trace[1].calls[1].properties
       /\ Len(trace) = 2 =>
            page.properties[input.property_name]
                = trace[1].calls[1].properties[input.property_name]

(* ---------------------------------------------------------------------- *)
(* str.lower() and the substring test                                     *)
(* ---------------------------------------------------------------------- *)

UpperCase == <<"A", "B", "C", "D", "E", "F", "G", "H", "I", "J", "K", "L", "M", "N", "O", "P", "Q", "R", "S", "T", "U", "V", "W", "X", "Y", "Z">>
LowerCase == <<"a", "b", "c", "d", "e", "f", "g", "h", "i", "j", "k", "l", "m", "n", "o", "p", "q", "r", "s", "t", "u", "v", "w", "x", "y", "z">>

LowerChar(c) ==
    IF \E i \in 1..Len(UpperCase) : UpperCase[i] = c
    THEN LowerCase[CHOOSE i \in 1..Len(UpperCase) : UpperCase[i] = c]
    ELSE c

\* str.lower()
Lower(s) == [i \in 1..Len(s) |-> LowerChar(s[i])]

\* sub in s
Contains(sub, s) ==
    \E k \in 0..(Len(s) - Len(sub)) : SubSeq(s, k + 1, k + Len(sub)) = sub

RECURSIVE Concat(_)
Concat(ss) == IF ss = <<>> THEN <<>> ELSE Head(ss) \o Concat(Tail(ss))

(* ---------------------------------------------------------------------- *)
(* update_is_ai_analysis_done_property                                    *)
(* ---------------------------------------------------------------------- *)

\* most fragments a page text is put together from
MaxFragments == 2

AIAnalysis == <<"A", "I", " ", "A", "n", "a", "l", "y", "s", "i", "s">>
MainPoints == <<"m", "a", "i", "n", " ", "p", "o", "i", "n", "t", "s">>

\* the condition of the if, with "or" for "and"
HasEitherMarker(page_text) ==
    \/ Contains(Lower(AIAnalysis), Lower(page_text))
    \/ Contains(Lower(MainPoints), Lower(page_text))

\* "AI Analysis".lower() in page_text.lower()
\*     and "main points".lower() in page_text.lower()
HasBothMarkers(page_text) ==
    /\ Contains(Lower(AIAnalysis), Lower(page_text))
    /\ Contains(Lower(MainPoints), Lower(page_text))

\* the whole function: [outcome, page]
update_is_ai_analysis_done_property(pg, page_text) ==
    IF ~HasBothMarkers(page_text)
    THEN [outcome |-> Returned(None, <<>>), page |-> pg]
    ELSE IF "is_ai_analyzed" \notin DOMAIN pg.properties
    THEN [outcome |-> Raised(KeyErrorHandler, <<>>), page |-> pg]
    ELSE LET pg2 == [pg EXCEPT !.properties["is_ai_analyzed"].checkbox = TRUE]
         IN  [outcome |-> Returned(None,
                  <<UpdateCall(pg.id,
                        "is_ai_analyzed" :> pg2.properties["is_ai_analyzed"])>>),
              page |-> pg2]

FlagPages ==
    { [id |-> i, properties |-> ("is_ai_analyzed" :> [type |-> "checkbox", checkbox |-> b])] :
        i \in PageIds, b \in BOOLEAN }
    \cup { [id |-> i, properties |-> <<>>] : i \in PageIds }

\* page texts are put together from these: the marker phrases in several
\* cases, a phrase cut short, a phrase in two halves, and other text
Fragments ==
    { <<"A", "I", " ", "A", "n", "a", "l", "y", "s", "i", "s">>,
      <<"a", "i", " ", "a", "n", "a", "l", "y", "s", "i", "s">>,
      <<"M", "A", "I", "N", " ", "P", "O", "I", "N", "T", "S">>,
      <<"M", "a", "i", "n", " ", "P", "o", "i", "n", "t", "s">>,
      <<"A", "I", " ", "A", "n", "a", "l", "y", "s", "i">>,
      <<"m", "a", "i", "n", " ">>,
      <<"p", "o", "i", "n", "t", "s">>,
      <<" ", "x", " ">> }

PageTexts == { Concat(fs) : fs \in SeqsUpTo(Fragments, MaxFragments) }

InitFlag ==
    /\ op = "update_is_ai_analysis_done_property"
    /\ input \in { [page_text |-> t] : t \in PageTexts }
    /\ page \in FlagPages
    /\ trace = <<>>

UpdateIsAiAnalysisDoneProperty ==
    /\ op = "update_is_ai_analysis_done_property"
    /\ Len(trace) < MaxInvocations
    /\ LET r == update_is_ai_analysis_done_property(page, input.page_text)
       IN  /\ trace' = Append(trace, r.outcome)
           /\ page' = r.page
    /\ UNCHANGED <<op, input>>

NextFlag == UpdateIsAiAnalysisDoneProperty

SpecFlag == InitFlag /\ [][NextFlag]_vars

(* ---------------------------------------------------------------------- *)
(* C3                                                                     *)
(* ---------------------------------------------------------------------- *)

SetsFlag(outcome, b) ==
    \E k \in 1..Len(outcome.calls) :
        /\ outcome.calls[k].api = "pages.update"
        /\ outcome.calls[k].properties["is_ai_analyzed"].checkbox = b

\* C3 as stated: the invocation sends a page update setting is_ai_analyzed to
\* true if and only if the page text contains both marker phrases in any case;
\* otherwise it sends no update, and it never sends an update setting false.
C3_Original ==
    \A t \in 1..Len(trace) :
        op = "update_is_ai_analysis_done_property" =>
        /\ SetsFlag(trace[t], TRUE) <=> HasBothMarkers(input.page_text)
        /\ ~HasBothMarkers(input.page_text) => trace[t].calls = <<>>
        /\ ~SetsFlag(trace[t], FALSE)

\* C3 as amended: the invocation sends a page update setting is_ai_analyzed to
\* true if and only if the page text contains both marker phrases in any case
\* and the page has an is_ai_analyzed property; otherwise it sends no update,
\* and it never sends an update setting false.
C3_FlagIffBothMarkers ==
    \A t \in 1..Len(trace) :
        op = "update_is_ai_analysis_done_property" =>
        LET both == /\ Contains(Lower(AIAnalysis), Lower(input.page_text))
                    /\ Contains(Lower(MainPoints), Lower(input.page_text))
            has == "is_ai_analyzed" \in DOMAIN page.properties
        IN  /\ SetsFlag(trace[t], TRUE) <=> (both /\ has)
            /\ ~(both /\ has) => trace[t].calls = <<>>
            /\ ~SetsFlag(trace[t], FALSE)

\* a text holding both phrases, in a case other than the markers', was
\* handled for a page with the property: one update was sent, setting true
C3_Witness ==
    /\ op = "update_is_ai_analysis_done_property"
    /\ Contains(Lower(AIAnalysis), Lower(input.page_text))
    /\ Contains(Lower(MainPoints), Lower(input.page_text))
    /\ ~Contains(AIAnalysis, input.page_text)
    /\ "is_ai_analyzed" \in DOMAIN page.properties
    /\ Len(trace) = 1
    /\ Len(trace[1].calls) = 1
    /\ SetsFlag(trace[1], TRUE)

(* ---------------------------------------------------------------------- *)
(* JSON objects as the extractors see them                                *)
(*                                                                        *)
(* A JSON value is tagged: null, a str, a list or a dict (a function on   *)
(* the keys present).  An expression evaluates to [exc, val]: the         *)
(* exception it raised, or "none" and its value.                          *)
(* ---------------------------------------------------------------------- *)

JNull == [t |-> "null"]
JStr(x) == [t |-> "str", v |-> x]
JList(l) == [t |-> "list", v |-> l]
Absent == [t |-> "absent"]
\* the dict holding the keys of full whose value is not Absent
JDict(full) ==
    [t |-> "dict",
     v |-> [k \in { k \in DOMAIN full : full[k].t /= "absent" } |-> full[k]]]

Ok(j) == [exc |-> "none", val |-> j]
Err(e) == [exc |-> e, val |-> JNull]

\* bool(j)
Truthy(j) ==
    CASE j.t = "null" -> FALSE
      [] j.t = "str" -> j.v /= ""
      [] j.t = "list" -> Len(j.v) > 0
      [] j.t = "dict" -> DOMAIN j.v /= {}

\* j[k] for a str key k
GetItem(j, k) ==
    CASE j.t = "dict" -> IF k \in DOMAIN j.v THEN Ok(j.v[k]) ELSE Err("KeyError")
      [] OTHER -> Err("TypeError")

\* j[0]
First(j) ==
    CASE j.t = "list" -> IF Len(j.v) > 0 THEN Ok(j.v[1]) ELSE Err("IndexError")
      [] j.t = "dict" -> Err("KeyError")
      [] OTHER -> Err("TypeError")

\* j.get(k, default); None, a list and a str have no get
DictGet(j, k, default) ==
    CASE j.t = "dict" -> IF k \in DOMAIN j.v THEN Ok(j.v[k]) ELSE Ok(default)
      [] OTHER -> Err("AttributeError")

\* evaluate F on the value of r, unless r raised
Bind(r, F(_)) == IF r.exc /= "none" THEN r ELSE F(r.val)

\* the outcome of an extractor invocation
Outcome(fn, r) ==
    [fn |-> fn, raised |-> r.exc, value |-> r.val, calls |-> <<>>]

(* ---------------------------------------------------------------------- *)
(* extract_title, extract_stars, extract_project_name,                    *)
(* extract_external_url                                                   *)
(* ---------------------------------------------------------------------- *)

\* title_data["title"][0]["plain_text"]
FirstPlainText(title_data) ==
    Bind(GetItem(title_data, "title"),
         LAMBDA l : Bind(First(l), LAMBDA span : GetItem(span, "plain_text")))

\* title_data["title"][0]["plain_text"]
\*     if title_data and title_data.get("title") else None
TitleOf(title_data) ==
    IF ~Truthy(title_data) THEN Ok(JNull)
    ELSE Bind(DictGet(title_data, "title", JNull),
              LAMBDA l : IF Truthy(l) THEN FirstPlainText(title_data)
                                      ELSE Ok(JNull))

\* a or b, b evaluated only when a is falsy
OrElse(a, b) ==
    IF a.exc /= "none" THEN a ELSE IF Truthy(a.val) THEN a ELSE b

extract_title(data) ==
    Bind(GetItem(data, "properties"),
         LAMBDA props :
            Bind(OrElse(DictGet(props, "Title", JNull),
                        DictGet(props, "Name", JNull)),
                 TitleOf))

\* x.get("name") if x else None
NameIfAny(x) == IF Truthy(x) THEN DictGet(x, "name", JNull) ELSE Ok(JNull)

extract_stars(data) ==
    Bind(GetItem(data, "properties"),
         LAMBDA props :
            Bind(DictGet(props, "Future Value Rank", JDict(<<>>)),
                 LAMBDA rank : Bind(DictGet(rank, "select", JNull), NameIfAny)))

RelatedProjects == "Related to Projects Database (Related to Media Vault (Property))"

\* the if / elif of extract_project_name
ProjectNameOf(related_projects, projects) ==
    IF Truthy(related_projects)
    THEN Bind(First(related_projects), NameIfAny)
    ELSE IF Truthy(projects)
    THEN Bind(First(projects), NameIfAny)
    ELSE Ok(JNull)

extract_project_name(data) ==
    Bind(GetItem(data, "properties"),
         LAMBDA props :
            Bind(Bind(DictGet(props, RelatedProjects, JDict(<<>>)),
                      LAMBDA d : DictGet(d, "relation", JNull)),
                 LAMBDA related_projects :
                    Bind(Bind(DictGet(props, "Projects", JDict(<<>>)),
                              LAMBDA d : DictGet(d, "relation", JNull)),
                         LAMBDA projects :
                            ProjectNameOf(related_projects, projects))))

extract_external_url(data) ==
    Bind(GetItem(data, "properties"),
         LAMBDA props :
            Bind(DictGet(props, "URL", JDict(<<>>)),
                 LAMBDA url_property :
                    IF Truthy(url_property)
                    THEN DictGet(url_property, "url", JNull)
                    ELSE Ok(JNull)))

\* most rich-text spans in a title array
MaxSpans == 2

\* the title array of a property named name, with n spans
TitleSpans(name, n) ==
    JList([i \in 1..n |-> JDict([plain_text |-> JStr(<<name, i>>)])])

\* what a page may hold under "Title" or "Name": nothing, null, a property of
\* another type, or a title property with a title array of 0..MaxSpans spans
TitleProps(name) ==
    { Absent, JNull, JDict([type |-> JStr("rich_text")]) }
    \cup { JDict([type |-> JStr("title"), title |-> TitleSpans(name, n)]) :
             n \in 0..MaxSpans }

TitleObjects ==
    { JDict([id |-> JStr("a-1"),
             properties |-> JDict([Title |-> t, Name |-> n])]) :
        t \in TitleProps("Title"), n \in TitleProps("Name") }

SelectValues ==
    { Absent, JNull, JDict([id |-> JStr("s-1")]),
      JDict([id |-> JStr("s-1"), name |-> JStr("5 stars")]) }

StarsProps ==
    { Absent, JNull } \cup { JDict([type |-> JStr("select"), select |-> v]) :
                               v \in SelectValues }

RelationElements ==
    { JNull, JDict([id |-> JStr("p-1")]),
      JDict([id |-> JStr("p-1"), name |-> JStr("Project")]) }

RelationValues ==
    { Absent, JNull, JList(<<>>) } \cup { JList(<<e>>) : e \in RelationElements }

RelationProps ==
    { Absent, JNull } \cup { JDict([type |-> JStr("relation"), relation |-> v]) :
                               v \in RelationValues }

UrlProps ==
    { Absent, JNull,
      JDict([type |-> JStr("url")]),
      JDict([type |-> JStr("url"), url |-> JNull]),
      JDict([type |-> JStr("url"), url |-> JStr("https://example.org")]) }

\* the page objects whose nested property paths the three path extractors read
PathObjects ==
    { JDict([id |-> JStr("a-1"),
             properties |-> JDict(("Future Value Rank" :> s)
                                  @@ (RelatedProjects :> r)
                                  @@ ("Projects" :> p)
                                  @@ ("URL" :> u))]) :
        s \in StarsProps, r \in RelationProps, p \in RelationProps, u \in UrlProps }

\* page objects without a "properties" dict
BareObjects ==
    { JDict([id |-> JStr("a-1"), properties |-> Absent]),
      JDict([id |-> JStr("a-1"), properties |-> JNull]) }

ExtractInputs == TitleObjects \cup PathObjects \cup BareObjects

InitExtract ==
    /\ op = "extract"
    /\ input \in ExtractInputs
    /\ page = NoPage
    /\ trace = <<>>

Extract(fn, r) ==
    /\ op = "extract"
    /\ Len(trace) < MaxInvocations
    /\ trace' = Append(trace, Outcome(fn, r))
    /\ UNCHANGED <<op, input, page>>

ExtractTitle == Extract("extract_title", extract_title(input))
ExtractStars == Extract("extract_stars", extract_stars(input))
ExtractProjectName == Extract("extract_project_name", extract_project_name(input))
ExtractExternalUrl == Extract("extract_external_url", extract_external_url(input))

NextExtract ==
    \/ ExtractTitle
    \/ ExtractStars
    \/ ExtractProjectName
    \/ ExtractExternalUrl

SpecExtract == InitExtract /\ [][NextExtract]_vars

(* ---------------------------------------------------------------------- *)
(* C4                                                                     *)
(* ---------------------------------------------------------------------- *)

\* data has a "properties" dict
HasProperties(data) ==
    /\ "properties" \in DOMAIN data.v
    /\ data.v["properties"].t = "dict"

\* the property k of data is a title property with a non-empty title array
WellFormedTitle(data, k) ==
    /\ k \in DOMAIN data.v["properties"].v
    /\ data.v["properties"].v[k].t = "dict"
    /\ "title" \in DOMAIN data.v["properties"].v[k].v
    /\ Len(data.v["properties"].v[k].v["title"].v) > 0

FirstSpanText(data, k) ==
    data.v["properties"].v[k].v["title"].v[1].v["plain_text"]

\* C4: for a page object with a well-formed "Title" or "Name" property (a
\* non-empty title array), extract_title returns the first span's plain text
\* of such a property, "Title" before "Name", also when the other of the two
\* is present with an empty title array; with neither property it returns no
\* value.
C4_ExtractTitle ==
    \A t \in 1..Len(trace) :
        (op = "extract" /\ trace[t].fn = "extract_title" /\ HasProperties(input))
        => /\ trace[t].raised = "none"
           /\ WellFormedTitle(input, "Title")
                => trace[t].value = FirstSpanText(input, "Title")
           /\ (~WellFormedTitle(input, "Title") /\ WellFormedTitle(input, "Name"))
                => trace[t].value = FirstSpanText(input, "Name")
           /\ ({"Title", "Name"} \cap DOMAIN input.v["properties"].v = {})
                => trace[t].value = JNull

(* ---------------------------------------------------------------------- *)
(* C10                                                                    *)
(* ---------------------------------------------------------------------- *)

\* whether following path from j (str keys, 0 for the first element of a
\* list) meets no missing key and no null
RECURSIVE HasPath(_, _)
HasPath(j, path) ==
    IF j.t = "null" THEN FALSE
    ELSE IF path = <<>> THEN TRUE
    ELSE IF Head(path) = "0"
    THEN j.t = "list" /\ Len(j.v) > 0 /\ HasPath(j.v[1], Tail(path))
    ELSE /\ j.t = "dict"
         /\ Head(path) \in DOMAIN j.v
         /\ HasPath(j.v[Head(path)], Tail(path))

\* the nested property paths the extractors read
PathsRead(fn) ==
    CASE fn = "extract_stars" ->
            { <<"properties", "Future Value Rank", "select", "name">> }
      [] fn = "extract_project_name" ->
            { <<"properties", RelatedProjects, "relation", "0", "name">>,
              <<"properties", "Projects", "relation", "0", "name">> }
      [] fn = "extract_external_url" ->
            { <<"properties", "URL", "url">> }
      [] OTHER -> {}

\* C10: extract_stars, extract_project_name and extract_external_url never
\* raise, and return no value for a page object in which a segment of the
\* nested property path they read is missing or null.
C10_PathExtractorsTotal ==
    \A t \in 1..Len(trace) :
        (op = "extract" /\ PathsRead(trace[t].fn) /= {})
        => /\ trace[t].raised = "none"
           /\ (\A path \in PathsRead(trace[t].fn) : ~HasPath(input, path))
                => trace[t].value = JNull

(* ---------------------------------------------------------------------- *)
(* fuzz.partial_ratio                                                     *)
(*                                                                        *)
(* The similarity of two strings is 2 * LCS / (sum of the lengths), as a  *)
(* percentage rounded to an integer.  The partial ratio is the best       *)
(* similarity of the shorter string to a window of the longer one: every  *)
(* substring as long as the shorter string, and the prefixes and suffixes *)
(* of the longer string that are shorter than that.                       *)
(* ---------------------------------------------------------------------- *)

Max(a, b) == IF a > b THEN a ELSE b

\* one row of the longest-common-subsequence table: cur holds the row's
\* columns 0..Len(cur)-1, prev is the row above
RECURSIVE LcsRow(_, _, _, _)
LcsRow(prev, c, b, cur) ==
    IF Len(cur) = Len(b) + 1 THEN cur
    ELSE LET j == Len(cur)
         IN  LcsRow(prev, c, b,
                    Append(cur, IF c = b[j] THEN prev[j] + 1
                                ELSE Max(prev[j + 1], cur[j])))

RECURSIVE LcsRows(_, _, _)
LcsRows(a, b, prev) ==
    IF a = <<>> THEN prev
    ELSE LcsRows(Tail(a), b, LcsRow(prev, Head(a), b, <<0>>))

\* the length of the longest common subsequence of a and b
Lcs(a, b) == LcsRows(a, b, [j \in 1..(Len(b) + 1) |-> 0])[Len(b) + 1]

\* fuzz.ratio on non-empty strings, rounded half up
Ratio(a, b) == (400 * Lcs(a, b) + Len(a) + Len(b)) \div (2 * (Len(a) + Len(b)))

\* the windows of long that short is compared with
Windows(short, long) ==
    { SubSeq(long, 1, i) : i \in 1..(Len(short) - 1) }
    \cup { SubSeq(long, i, i + Len(short) - 1) : i \in 1..(Len(long) - Len(short) + 1) }
    \cup { SubSeq(long, i, Len(long)) : i \in (Len(long) - Len(short) + 2)..Len(long) }

SetMax(S) == CHOOSE x \in S : \A y \in S : y <= x

\* fuzz.partial_ratio(s1, s2)
PartialRatio(s1, s2) ==
    IF s1 = <<>> \/ s2 = <<>> THEN 0
    ELSE LET short == IF Len(s1) <= Len(s2) THEN s1 ELSE s2
             long == IF Len(s1) <= Len(s2) THEN s2 ELSE s1
         IN  SetMax({ Ratio(short, w) : w \in Windows(short, long) })

(* ---------------------------------------------------------------------- *)
(* filter_database_on_name                                                *)
(* ---------------------------------------------------------------------- *)

\* most database records in a collection
MaxRecords == 3

\* the similarity a record must exceed to be kept
MatchThreshold == 90

\* the list comprehension over the records still to do: the records kept, or
\* the exception of the first record without a title (None has no lower())
RECURSIVE FuzzFilter(_, _)
FuzzFilter(database_collection, name) ==
    IF database_collection = <<>> THEN [exc |-> "none", kept |-> <<>>]
    ELSE LET database == Head(database_collection)
         IN  IF IsNone(database.title)
             THEN [exc |-> "AttributeError", kept |-> <<>>]
             ELSE LET rest == FuzzFilter(Tail(database_collection), name)
                      keep == PartialRatio(Lower(database.title[1]), Lower(name))
                                  > MatchThreshold
                  IN  IF rest.exc /= "none" THEN rest
                      ELSE [exc |-> "none",
                            kept |-> IF keep THEN <<database>> \o rest.kept
                                             ELSE rest.kept]

\* a filter that returns the last record kept
filter_database_on_name_last(database_collection, name) ==
    LET db_fuzz == FuzzFilter(database_collection, name)
    IN  IF db_fuzz.exc /= "none" THEN Raised(db_fuzz.exc, <<>>)
        ELSE IF db_fuzz.kept = <<>> THEN Raised("IndexError", <<>>)
        ELSE Returned(Some(db_fuzz.kept[Len(db_fuzz.kept)]), <<>>)

\* the whole function: db_fuzz[0], whatever db_fuzz holds
filter_database_on_name(database_collection, name) ==
    LET db_fuzz == FuzzFilter(database_collection, name)
    IN  IF db_fuzz.exc /= "none" THEN Raised(db_fuzz.exc, <<>>)
        ELSE IF db_fuzz.kept = <<>> THEN Raised("IndexError", <<>>)
        ELSE Returned(Some(db_fuzz.kept[1]), <<>>)

\* the titles of database records: absent (a faulty record), or a string that
\* matches the names below exactly, in another case, as a substring, nearly
\* (five characters of six in order), or not
DatabaseTitles ==
    { None,
      Some(<<"A", "B", "C", "D", "E", "F">>),
      Some(<<"a", "b", "c", "d", "e", "Z">>),
      Some(<<"a", "b", "X", "d", "e", "f">>),
      Some(<<"b", "c", "d">>),
      Some(<<"z", "z">>) }

DatabaseNames == { <<"a", "b", "c", "d", "e", "f">>, <<"A", "b", "C", "d", "E", "f">> }

\* Database(id, title), the id telling the records of a collection apart
Collections ==
    { [i \in 1..Len(ts) |-> [id |-> <<"d", "b", "-", i>>, title |-> ts[i]]] :
        ts \in SeqsUpTo(DatabaseTitles, MaxRecords) }

InitFilter ==
    /\ op = "filter_database_on_name"
    /\ input \in { [database_collection |-> c, name |-> n] :
                     c \in Collections, n \in DatabaseNames }
    /\ page = NoPage
    /\ trace = <<>>

FilterDatabaseOnName ==
    /\ op = "filter_database_on_name"
    /\ Len(trace) < MaxInvocations
    /\ trace' = Append(trace,
           filter_database_on_name(input.database_collection, input.name))
    /\ UNCHANGED <<op, input, page>>

NextFilter == FilterDatabaseOnName

SpecFilter == InitFilter /\ [][NextFilter]_vars

(* ---------------------------------------------------------------------- *)
(* C5, C6                                                                 *)
(* ---------------------------------------------------------------------- *)

AllTitled(c) == \A i \in 1..Len(c) : ~IsNone(c[i].title)

\* the similarity of record i of the collection to the name, both lowercased
Score(c, i, name) == PartialRatio(Lower(c[i].title[1]), Lower(name))

\* the positions of the records scoring strictly above 90
Matching(c, name) == { i \in 1..Len(c) : Score(c, i, name) > 90 }

\* C5: when no record of the collection scores above 90 against the name (the
\* empty collection included), filter_database_on_name ends with a "no match"
\* outcome, an empty selection, and does not raise from reading position 0 of
\* the filtered list.
C5_NoMatchOutcome ==
    \A t \in 1..Len(trace) :
        (/\ op = "filter_database_on_name"
         /\ AllTitled(input.database_collection)
         /\ Matching(input.database_collection, input.name) = {})
        => /\ trace[t].raised = "none"
           /\ trace[t].value = None

\* C6: when at least one record of a collection of titled records scores
\* strictly above 90, filter_database_on_name returns the record of smallest
\* index among those, whatever the scores of the later ones, and every
\* invocation on the same collection and name returns that same record.
C6_FirstMatch ==
    \A t \in 1..Len(trace) :
        (/\ op = "filter_database_on_name"
         /\ AllTitled(input.database_collection)
         /\ Matching(input.database_collection, input.name) /= {})
        => LET c == input.database_collection
               first == CHOOSE i \in Matching(c, input.name) :
                            \A k \in Matching(c, input.name) : i <= k
           IN  /\ trace[t].raised = "none"
               /\ trace[t].value = Some(c[first])
               /\ trace[t] = trace[1]

\* two invocations returned the first record, which scores above 90 but below
\* a later record of the collection
C6_Witness ==
    /\ op = "filter_database_on_name"
    /\ AllTitled(input.database_collection)
    /\ Len(trace) = 2
    /\ trace[1].raised = "none"
    /\ trace[2].value = Some(input.database_collection[1])
    /\ \E k \in 2..Len(input.database_collection) :
          /\ Score(input.database_collection, 1, input.name) > 90
          /\ Score(input.database_collection, k, input.name)
                > Score(input.database_collection, 1, input.name)

(* ---------------------------------------------------------------------- *)
(* markdown_to_blocks                                                     *)
(*                                                                        *)
(* The parsed document is a tree, held as the sequence of its nodes in    *)
(* document order (the order of soup.descendants).  A node is a Tag or a  *)
(* NavigableString and names its parent by position, 0 being the soup.    *)
(* ---------------------------------------------------------------------- *)

\* most nodes in a parsed document
MaxNodes == 3

create_divider_block == [type |-> "divider", divider |-> <<>>]

\* RichTextObject(text=TextObject(content=content)), as json.dumps leaves it
create_rich_text_object(content) ==
    [type |-> "text", text |-> [content |-> content, link |-> None]]

RECURSIVE IsAncestor(_, _, _)
\* whether node a is an ancestor of node j
IsAncestor(tree, a, j) ==
    /\ j /= 0
    /\ \/ tree[j].parent = a
       \/ IsAncestor(tree, a, tree[j].parent)

\* tag.get_text(): the strings below the tag, in document order
RECURSIVE TextFrom(_, _, _)
TextFrom(tree, i, j) ==
    IF j > Len(tree) THEN <<>>
    ELSE (IF tree[j].kind = "NavigableString" /\ IsAncestor(tree, i, j)
          THEN tree[j].text ELSE <<>>)
         \o TextFrom(tree, i, j + 1)

get_text(tree, i) == TextFrom(tree, i, i + 1)

create_paragraph_block(tree, i) ==
    Ok([type |-> "paragraph",
        paragraph |-> [rich_text |-> <<create_rich_text_object(get_text(tree, i))>>,
                       children |-> <<>>,
                       color |-> "default"]])

create_heading_block(tree, i, level) ==
    Ok([type |-> level]
       @@ (level :> [rich_text |-> <<create_rich_text_object(get_text(tree, i))>>,
                     color |-> "default",
                     is_toggleable |-> FALSE]))

create_bulleted_list_item_block(tree, i) ==
    Ok([type |-> "bulleted_list_item",
        bulleted_list_item |->
            [rich_text |-> <<create_rich_text_object(get_text(tree, i))>>,
             color |-> "default",
             children |-> <<>>]])

create_numbered_list_item_block(tree, i) ==
    Ok([type |-> "numbered_list_item",
        numbered_list_item |->
            [rich_text |-> <<create_rich_text_object(get_text(tree, i))>>,
             color |-> "default",
             children |-> <<>>]])

\* tag["src"] raises KeyError on a tag without the attribute
create_image_block(tree, i) ==
    IF "src" \in DOMAIN tree[i].attrs
    THEN Ok([type |-> "image",
             image |-> [external |-> [url |-> tree[i].attrs["src"]]]])
    ELSE Err("KeyError")

\* the names tag_to_block has an entry for
TagToBlockNames == {"p", "h1", "h2", "h3", "li", "img", "ol"}

\* tag_to_block[name](tag)
tag_to_block(name, tree, i) ==
    CASE name = "p" -> create_paragraph_block(tree, i)
      [] name = "h1" -> create_heading_block(tree, i, "heading_1")
      [] name = "h2" -> create_heading_block(tree, i, "heading_2")
      [] name = "h3" -> create_heading_block(tree, i, "heading_3")
      [] name = "li" -> create_bulleted_list_item_block(tree, i)
      [] name = "img" -> create_image_block(tree, i)
      [] name = "ol" -> create_numbered_list_item_block(tree, i)

\* tag.parent.name
ParentName(tree, i) ==
    IF tree[i].parent = 0 THEN "[document]" ELSE tree[tree[i].parent].name

\* the body of the for loop for node i: the blocks it appends
BlocksOfNode(tree, i) ==
    IF tree[i].kind /= "Tag" THEN [exc |-> "none", blocks |-> <<>>]
    ELSE IF tree[i].name = "li"
    THEN LET b == IF ParentName(tree, i) = "ol"
                  THEN create_numbered_list_item_block(tree, i)
                  ELSE create_bulleted_list_item_block(tree, i)
         IN  [exc |-> b.exc, blocks |-> <<b.val>>]
    ELSE IF tree[i].name \in TagToBlockNames
    THEN LET b == tag_to_block(tree[i].name, tree, i)
         IN  [exc |-> b.exc, blocks |-> <<b.val>>]
    ELSE [exc |-> "none", blocks |-> <<>>]

\* the for loop over soup.descendants from node i on, blocks being the list so far
RECURSIVE DescendantsLoop(_, _, _)
DescendantsLoop(tree, i, blocks) ==
    IF i > Len(tree) THEN [exc |-> "none", blocks |-> blocks]
    ELSE LET r == BlocksOfNode(tree, i)
         IN  IF r.exc /= "none" THEN [exc |-> r.exc, blocks |-> blocks]
             ELSE DescendantsLoop(tree, i + 1, blocks \o r.blocks)

\* the whole function, from the parsed document on
markdown_to_blocks(tree) ==
    LET r == DescendantsLoop(tree, 1, <<create_divider_block>>)
    IN  IF r.exc /= "none" THEN Raised(r.exc, <<>>)
        ELSE Returned(Some(r.blocks), <<>>)

\* the tag names of the parsed documents: those the converter has a block
\* for, the list containers, and an inline tag it has none for
TagNames == {"p", "h1", "h2", "h3", "li", "img", "ol", "ul", "em"}

\* the tags that have no content
VoidTags == {"img"}

\* the nodes that may come next in document order after the nodes of tree:
\* a child of the last node, or of one of its ancestors, or of the soup
NextNodes(tree) ==
    LET n == Len(tree)
        parents == {0} \cup { j \in 1..n :
                                /\ tree[j].kind = "Tag"
                                /\ tree[j].name \notin VoidTags
                                /\ (j = n \/ IsAncestor(tree, j, n)) }
    IN  { [kind |-> "Tag", name |-> nm, parent |-> q, attrs |-> <<>>] :
            nm \in TagNames, q \in parents }
        \cup { [kind |-> "Tag", name |-> "img", parent |-> q,
                attrs |-> [src |-> <<"u", n + 1>>]] : q \in parents }
        \cup { [kind |-> "NavigableString", name |-> "", parent |-> q,
                text |-> <<n + 1>>] : q \in parents }

\* the parsed documents of exactly n nodes
RECURSIVE TreesOf(_)
TreesOf(n) ==
    IF n = 0 THEN { <<>> }
    ELSE UNION { { Append(tree, node) : node \in NextNodes(tree) } :
                   tree \in TreesOf(n - 1) }

\* the parsed documents of at most n nodes
TreesUpTo(n) == UNION { TreesOf(k) : k \in 0..n }

InitMarkdown ==
    /\ op = "markdown_to_blocks"
    /\ input \in { [soup |-> tree] : tree \in TreesUpTo(MaxNodes) }
    /\ page = NoPage
    /\ trace = <<>>

MarkdownToBlocks ==
    /\ op = "markdown_to_blocks"
    /\ Len(trace) < MaxInvocations
    /\ trace' = Append(trace, markdown_to_blocks(input.soup))
    /\ UNCHANGED <<op, input, page>>

NextMarkdown == MarkdownToBlocks

SpecMarkdown == InitMarkdown /\ [][NextMarkdown]_vars

(* ---------------------------------------------------------------------- *)
(* C7                                                                     *)
(* ---------------------------------------------------------------------- *)

\* the positions of the tags named p, h1, h2, h3, li or img, in document order
RecognizedTags(tree) ==
    SelectSeq([i \in 1..Len(tree) |-> i],
              LAMBDA i : /\ tree[i].kind = "Tag"
                         /\ tree[i].name \in {"p", "h1", "h2", "h3", "li", "img"})

\* the block types a tag of that name may give
BlockTypesOf(name) ==
    CASE name = "p" -> {"paragraph"}
      [] name = "h1" -> {"heading_1"}
      [] name = "h2" -> {"heading_2"}
      [] name = "h3" -> {"heading_3"}
      [] name = "li" -> {"bulleted_list_item", "numbered_list_item"}
      [] name = "img" -> {"image"}
      [] OTHER -> {}

\* every img tag of the document has a src attribute
ImagesHaveSrc(tree) ==
    \A i \in 1..Len(tree) :
        (tree[i].kind = "Tag" /\ tree[i].name = "img") => "src" \in DOMAIN tree[i].attrs

\* C7: for every tag tree markdown_to_blocks returns a sequence that starts
\* with one divider block, followed by exactly one block for each tag named
\* p, h1, h2, h3, li or img, in document order; tags of other names give no
\* block and do not make it raise, and there is no other block.  (Stated for
\* the documents whose img tags all have a src.)
C7_OneBlockPerRecognizedTag ==
    \A t \in 1..Len(trace) :
        (op = "markdown_to_blocks" /\ ImagesHaveSrc(input.soup)) =>
        LET tags == RecognizedTags(input.soup)
        IN  /\ trace[t].raised = "none"
            /\ LET blocks == trace[t].value[1]
               IN  /\ Len(blocks) = 1 + Len(tags)
                   /\ blocks[1] = create_divider_block
                   /\ \A k \in 1..Len(tags) :
                        blocks[k + 1].type \in BlockTypesOf(input.soup[tags[k]].name)

(* ---------------------------------------------------------------------- *)
(* helpers.get_all_pages_for_database                                     *)
(* ---------------------------------------------------------------------- *)

\* most pages a database query yields
MaxPages == 2

\* the decimal digit of a position
Digit(i) == <<"0", "1", "2", "3", "4", "5", "6", "7", "8", "9">>[i + 1]

\* str.replace("-", "")
RemoveDashes(s) == SelectSeq(s, LAMBDA c : c /= "-")

\* Page(url, id, title)
PageRecord(url, id, title) == [url |-> url, id |-> id, title |-> title]

\* page["properties"][name]["title"][0]["plain_text"]
PropertyTitle(pg, name) ==
    Bind(GetItem(pg, "properties"),
         LAMBDA props : Bind(GetItem(props, name), FirstPlainText))

\* whether exc is caught by except (IndexError, KeyError)
IsLookupError(exc) == exc \in {"IndexError", "KeyError"}

\* the try block: Page(page["url"], page["id"], <the "Name" title>)
PageFromName(pg) ==
    Bind(GetItem(pg, "url"),
         LAMBDA url :
            Bind(GetItem(pg, "id"),
                 LAMBDA id :
                    Bind(PropertyTitle(pg, "Name"),
                         LAMBDA title : Ok(<<PageRecord(url.v, id.v, title.v)>>))))

\* len(x)
PyLen(x) ==
    CASE x.t = "list" -> Ok(Len(x.v))
      [] x.t = "dict" -> Ok(Cardinality(DOMAIN x.v))
      [] OTHER -> Err("TypeError")

\* the condition of the if in the except block:
\* page["properties"].get("Title") and len(page["properties"]["Title"]["title"]) > 0
HasTitleProperty(pg) ==
    Bind(GetItem(pg, "properties"),
         LAMBDA props :
            Bind(DictGet(props, "Title", JNull),
                 LAMBDA title_prop :
                    IF ~Truthy(title_prop) THEN Ok(FALSE)
                    ELSE Bind(GetItem(title_prop, "title"),
                              LAMBDA l : Bind(PyLen(l), LAMBDA n : Ok(n > 0)))))

\* the Page built in the except block:
\* Page(page["url"], page["id"].replace("-", ""), <the "Title" title>)
PageFromTitle(pg) ==
    Bind(GetItem(pg, "url"),
         LAMBDA url :
            Bind(GetItem(pg, "id"),
                 LAMBDA id :
                    Bind(PropertyTitle(pg, "Title"),
                         LAMBDA title :
                            Ok(<<PageRecord(url.v, RemoveDashes(id.v), title.v)>>))))

\* the body of the loop for one page: the Page records it adds, or the
\* exception that leaves the function
PagesOfPage(pg) ==
    LET by_name == PageFromName(pg)
    IN  IF by_name.exc = "none" \/ ~IsLookupError(by_name.exc) THEN by_name
        ELSE Bind(HasTitleProperty(pg),
                  LAMBDA has : IF has THEN PageFromTitle(pg) ELSE Ok(<<>>))

\* the loop of get_all_pages_for_database over the pages still to come
RECURSIVE PagesLoop(_, _)
PagesLoop(pages, page_collection) ==
    IF pages = <<>> THEN Ok(page_collection)
    ELSE Bind(PagesOfPage(Head(pages)),
              LAMBDA recs : PagesLoop(Tail(pages), page_collection \o recs))

\* the outcome of an invocation of fn that evaluated to r after sending calls
OutcomeOf(fn, r, calls) ==
    [fn |-> fn, raised |-> r.exc,
     value |-> IF r.exc = "none" THEN Some(r.val) ELSE None, calls |-> calls]

\* the whole function, from the pages the database query yields
get_all_pages_for_database(pages) ==
    OutcomeOf("get_all_pages_for_database", PagesLoop(pages, <<>>), <<>>)

\* what a fetched page may hold under "Name" or "Title": nothing, a property
\* of another type, or a title property with an empty or a one-span title
\* array; the span's text tells which page and which property it is from
PageTitleProps(name, i) ==
    { Absent,
      JDict([type |-> JStr("rich_text")]),
      JDict([type |-> JStr("title"), title |-> JList(<<>>)]),
      JDict([type |-> JStr("title"),
             title |-> JList(<<JDict([plain_text |-> JStr(<<name, i>>)])>>)]) }

\* the i-th page of a query result; ids are as the API gives them, with dashes
FetchedPages(i) ==
    { JDict([id |-> JStr(<<"p", "-", Digit(i)>>),
             url |-> JStr(<<"u", Digit(i)>>),
             properties |-> JDict([Name |-> n, Title |-> t])]) :
        n \in PageTitleProps("Name", i), t \in PageTitleProps("Title", i) }

RECURSIVE BatchesOf(_, _)
\* the sequences of n objects, the i-th taken from Objects(i)
BatchesOf(Objects(_), n) ==
    IF n = 0 THEN { <<>> }
    ELSE { Append(b, o) : b \in BatchesOf(Objects, n - 1), o \in Objects(n) }

BatchesUpTo(Objects(_), n) == UNION { BatchesOf(Objects, k) : k \in 0..n }

(* ---------------------------------------------------------------------- *)
(* get_all_database_ids (reads and helpers),                              *)
(* update_notion_database_with_parent_name                                *)
(* ---------------------------------------------------------------------- *)

\* most databases a search yields
MaxDatabases == 2

\* Database(id, title); title is None for a faulty record
DatabaseRecord(id, title) == [id |-> id, title |-> title]

\* the try block: Database(database["id"], database["title"][0]["plain_text"])
DatabaseFromTitle(database) ==
    Bind(GetItem(database, "id"),
         LAMBDA id :
            Bind(FirstPlainText(database),
                 LAMBDA title : Ok(DatabaseRecord(id.v, Some(title.v)))))

\* Database(database["id"].replace("-", ""), None)
FaultyRecord(database) ==
    Bind(GetItem(database, "id"),
         LAMBDA id : Ok(DatabaseRecord(RemoveDashes(id.v), None)))

DatabaseUpdateCall(database_id, title) ==
    [api |-> "databases.update", database_id |-> database_id, title |-> title]

\* update_notion_database_with_parent_name: [renamed, calls], renamed being
\* whether it returned the database id and not None; parent_page is what
\* pages.retrieve gives when asked for the parent
update_notion_database_with_parent_name(database, parent_page) ==
    LET page_id == Bind(GetItem(database, "parent"),
                        LAMBDA parent : GetItem(parent, "page_id"))
    IN  IF page_id.exc /= "none" THEN [renamed |-> FALSE, calls |-> <<>>]
        ELSE LET retrieve == <<RetrieveCall(page_id.val.v)>>
                 parent_page_title == PropertyTitle(parent_page, "Title")
             IN  IF parent_page_title.exc /= "none"
                 THEN [renamed |-> FALSE, calls |-> retrieve]
                 ELSE [renamed |-> TRUE,
                       calls |-> retrieve \o
                           <<DatabaseUpdateCall(database.v["id"].v,
                                 <<[text |-> [content |->
                                      <<parent_page_title.val.v, "-", "tnow">>]]>>)>>]

\* the loop of reads.get_all_database_ids over the databases still to come
RECURSIVE ReadsDatabasesLoop(_, _, _)
ReadsDatabasesLoop(databases, good, bad) ==
    IF databases = <<>>
    THEN Ok([database_collection |-> good, bad_database_collection |-> bad])
    ELSE LET database == Head(databases)
             r == DatabaseFromTitle(database)
         IN  IF r.exc = "none"
             THEN ReadsDatabasesLoop(Tail(databases), Append(good, r.val), bad)
             ELSE IF ~IsLookupError(r.exc) THEN r
             ELSE Bind(FaultyRecord(database),
                       LAMBDA rec :
                          ReadsDatabasesLoop(Tail(databases), good, Append(bad, rec)))

\* reads.get_all_database_ids, from the databases the search yields
reads_get_all_database_ids(databases) ==
    OutcomeOf("reads.get_all_database_ids",
              ReadsDatabasesLoop(databases, <<>>, <<>>), <<>>)

\* the loop of helpers.get_all_database_ids: [r, calls]
RECURSIVE HelpersDatabasesLoop(_, _, _, _, _)
HelpersDatabasesLoop(databases, parent_page, good, bad, calls) ==
    IF databases = <<>>
    THEN [r |-> Ok([database_collection |-> good, bad_database_collection |-> bad]),
          calls |-> calls]
    ELSE LET database == Head(databases)
             r == DatabaseFromTitle(database)
         IN  IF r.exc = "none"
             THEN HelpersDatabasesLoop(Tail(databases), parent_page,
                                       Append(good, r.val), bad, calls)
             ELSE IF ~IsLookupError(r.exc) THEN [r |-> r, calls |-> calls]
             ELSE LET u == update_notion_database_with_parent_name(database,
                                                                   parent_page)
                      rec == FaultyRecord(database)
                  IN  IF ~u.renamed
                      THEN HelpersDatabasesLoop(Tail(databases), parent_page,
                                                good, bad, calls \o u.calls)
                      ELSE IF rec.exc /= "none"
                      THEN [r |-> rec, calls |-> calls \o u.calls]
                      ELSE HelpersDatabasesLoop(Tail(databases), parent_page,
                               good, Append(bad, rec.val), calls \o u.calls)

\* helpers.get_all_database_ids, from the databases the search yields
helpers_get_all_database_ids(databases, parent_page) ==
    LET l == HelpersDatabasesLoop(databases, parent_page, <<>>, <<>>, <<>>)
    IN  OutcomeOf("helpers.get_all_database_ids", l.r, l.calls)

\* the title arrays of a database object: missing, empty, a span with its
\* plain text, a span without
DatabaseTitleArrays(i) ==
    { Absent,
      JList(<<>>),
      JList(<<JDict([plain_text |-> JStr(<<"db", i>>)])>>),
      JList(<<JDict([type |-> JStr("text")])>>) }

\* a database lies in a page or at the top of the workspace
DatabaseParents ==
    { JDict([type |-> JStr("page_id"), page_id |-> JStr(<<"p", "-", Digit(0)>>)]),
      JDict([type |-> JStr("workspace")]) }

\* the i-th database of a search result
FetchedDatabases(i) ==
    { JDict([id |-> JStr(<<"d", "-", Digit(i)>>), title |-> t, parent |-> q]) :
        t \in DatabaseTitleArrays(i), q \in DatabaseParents }

\* the parent page as pages.retrieve gives it
ParentPages ==
    { JDict([id |-> JStr(<<"p", "-", Digit(0)>>),
             properties |-> JDict([Title |-> t, Name |-> Absent])]) :
        t \in PageTitleProps("Title", 0) }

InitIds ==
    /\ \/ /\ op = "get_all_pages_for_database"
          /\ input \in { [pages |-> b] : b \in BatchesUpTo(FetchedPages, MaxPages) }
       \/ /\ op = "get_all_database_ids"
          /\ input \in { [databases |-> b, parent_page |-> pp] :
                           b \in BatchesUpTo(FetchedDatabases, MaxDatabases),
                           pp \in ParentPages }
    /\ page = NoPage
    /\ trace = <<>>

GetAllPagesForDatabase ==
    /\ op = "get_all_pages_for_database"
    /\ Len(trace) < MaxInvocations
    /\ trace' = Append(trace, get_all_pages_for_database(input.pages))
    /\ UNCHANGED <<op, input, page>>

ReadsGetAllDatabaseIds ==
    /\ op = "get_all_database_ids"
    /\ Len(trace) < MaxInvocations
    /\ trace' = Append(trace, reads_get_all_database_ids(input.databases))
    /\ UNCHANGED <<op, input, page>>

HelpersGetAllDatabaseIds ==
    /\ op = "get_all_database_ids"
    /\ Len(trace) < MaxInvocations
    /\ trace' = Append(trace,
           helpers_get_all_database_ids(input.databases, input.parent_page))
    /\ UNCHANGED <<op, input, page>>

NextIds ==
    \/ GetAllPagesForDatabase
    \/ ReadsGetAllDatabaseIds
    \/ HelpersGetAllDatabaseIds

SpecIds == InitIds /\ [][NextIds]_vars

(* ---------------------------------------------------------------------- *)
(* C9                                                                     *)
(* ---------------------------------------------------------------------- *)

\* the ids of the fetched objects
SourceIds(objects) == { objects[i].v["id"].v : i \in 1..Len(objects) }

\* every record of the sequence has the id of a fetched object
IdsFrom(records, objects) ==
    \A k \in 1..Len(records) : records[k].id \in SourceIds(objects)

\* C9: ids are never changed once extracted: every Page record returned by
\* helpers.get_all_pages_for_database and every Database record returned by
\* get_all_database_ids, in the good and in the faulty collection, has an id
\* equal, character for character, to the id of the object it was built from
\* (a titled record is built from the object whose title it has).
C9_IdsUnchanged ==
    \A t \in 1..Len(trace) :
        trace[t].raised = "none" =>
        /\ op = "get_all_pages_for_database" =>
             \A k \in 1..Len(trace[t].value[1]) :
                LET rec == trace[t].value[1][k]
                IN  rec.id = input.pages[rec.title[2]].v["id"].v
        /\ op = "get_all_database_ids" =>
             /\ IdsFrom(trace[t].value[1].database_collection, input.databases)
             /\ IdsFrom(trace[t].value[1].bad_database_collection, input.databases)

(* ---------------------------------------------------------------------- *)
(* C11                                                                    *)
(* ---------------------------------------------------------------------- *)

\* the fetched page has a title property called name with a non-empty array
NonEmptyTitle(pg, name) ==
    /\ name \in DOMAIN pg.v["properties"].v
    /\ "title" \in DOMAIN pg.v["properties"].v[name].v
    /\ Len(pg.v["properties"].v[name].v["title"].v) > 0

\* the titles of the Page records the fetched pages are to give, in fetch
\* order: the "Name" title, else the "Title" title, else no record
RECURSIVE TitlesDue(_)
TitlesDue(pages) ==
    IF pages = <<>> THEN <<>>
    ELSE (IF NonEmptyTitle(Head(pages), "Name")
          THEN <<FirstSpanText(Head(pages), "Name").v>>
          ELSE IF NonEmptyTitle(Head(pages), "Title")
          THEN <<FirstSpanText(Head(pages), "Title").v>>
          ELSE <<>>)
         \o TitlesDue(Tail(pages))

\* C11: helpers.get_all_pages_for_database never aborts the batch on a page
\* without a title: a page with a non-empty "Name" title gives one Page record
\* with that title, a page without it but with a non-empty "Title" title gives
\* one with that title, a page with neither gives no record, and the result
\* holds the records of all the other pages in fetch order.
C11_BatchNeverAborts ==
    \A t \in 1..Len(trace) :
        op = "get_all_pages_for_database" =>
        /\ trace[t].raised = "none"
        /\ LET recs == trace[t].value[1]
           IN  [k \in 1..Len(recs) |-> recs[k].title] = TitlesDue(input.pages)

(* ---------------------------------------------------------------------- *)
(* trigger_pipedream_for_pages                                            *)
(*                                                                        *)
(* The loop blocks in requests.post and then in time.sleep, so a POST and *)
(* a sleep are a step each.  trace is the sequence of the two calls made  *)
(* so far and page is the loop variable.  The response of a POST is       *)
(* discarded; a POST is taken to return.                                  *)
(* ---------------------------------------------------------------------- *)

\* most pages handed to trigger_pipedream_for_pages
MaxTriggerPages == 3

\* the seconds slept after a POST
SleepSeconds == 120

PipedreamUrl == "https://eo47mn7edy2ug3b.m.pipedream.net"

\* requests.post(url, json=data)
PostCall(url, data) == [api |-> "requests.post", url |-> url, json |-> data]

\* time.sleep(120)
SleepCall(seconds) == [api |-> "time.sleep", seconds |-> seconds]

\* data = {"page_id": page.id}
PostData(pg) == [page_id |-> pg.id]

\* the number of POSTs among the calls made
Posted(events) ==
    Len(SelectSeq(events, LAMBDA e : e.api = "requests.post"))

\* a loop that posts the next page without having slept
AtPostUnslept(events, pages) == Posted(events) < Len(pages)

\* the loop is at requests.post: it has slept after the last POST, if any, and
\* a page is left
AtPost(events, pages) ==
    /\ IF events = <<>> THEN TRUE ELSE events[Len(events)].api = "time.sleep"
    /\ Posted(events) < Len(pages)

\* the loop is at time.sleep: the last call was the POST of this iteration
AtSleep(events) ==
    IF events = <<>> THEN FALSE ELSE events[Len(events)].api = "requests.post"

\* Page(url, id, title) records as the enumeration gives them
TriggerPagePool ==
    { PageRecord(<<"u", "1">>, <<"p", "-", "1">>, <<"Name", 1>>),
      PageRecord(<<"u", "2">>, <<"p", "2">>, <<"Title", 2>>),
      PageRecord(<<"u", "3">>, <<"p", "-", "3">>, <<"Name", 3>>) }

InitTrigger ==
    /\ op = "trigger_pipedream_for_pages"
    /\ input \in { [pages |-> ps] : ps \in SeqsUpTo(TriggerPagePool, MaxTriggerPages) }
    /\ page = NoPage
    /\ trace = <<>>

\* for page in pages: ... requests.post(url, json=data)
Post ==
    /\ op = "trigger_pipedream_for_pages"
    /\ AtPost(trace, input.pages)
    /\ page' = input.pages[Posted(trace) + 1]
    /\ trace' = Append(trace, PostCall(PipedreamUrl, PostData(page')))
    /\ UNCHANGED <<op, input>>

\* time.sleep(120)
Sleep ==
    /\ op = "trigger_pipedream_for_pages"
    /\ AtSleep(trace)
    /\ trace' = Append(trace, SleepCall(SleepSeconds))
    /\ UNCHANGED <<op, input, page>>

NextTrigger == Post \/ Sleep

SpecTrigger == InitTrigger /\ [][NextTrigger]_vars

(* ---------------------------------------------------------------------- *)
(* C12                                                                    *)
(* ---------------------------------------------------------------------- *)

\* C12: trigger_pipedream_for_pages performs one POST per page, in input
\* order, with body {"page_id": the page's id}, each POST followed by one
\* sleep of 120 seconds before the next POST, so that no two POSTs come
\* without a sleep between them; when the loop has ended the number of POSTs
\* is the number of input pages.
C12_PostThenSleep ==
    op = "trigger_pipedream_for_pages" =>
    /\ \A k \in 1..Len(trace) :
         IF k % 2 = 1
         THEN /\ trace[k].api = "requests.post"
              /\ (k + 1) \div 2 <= Len(input.pages)
              /\ trace[k].json = [page_id |-> input.pages[(k + 1) \div 2].id]
              /\ trace[k].url = "https://eo47mn7edy2ug3b.m.pipedream.net"
         ELSE /\ trace[k].api = "time.sleep"
              /\ trace[k].seconds = 120
    /\ ~(ENABLED NextTrigger) =>
         /\ Posted(trace) = Len(input.pages)
         /\ Len(trace) = 2 * Len(input.pages)

\* the loop has ended on three pages, two of them the same page, after three
\* POSTs and three sleeps
C12_Witness ==
    /\ op = "trigger_pipedream_for_pages"
    /\ Len(input.pages) = 3
    /\ input.pages[1] = input.pages[3]
    /\ input.pages[1] /= input.pages[2]
    /\ Len(trace) = 6
    /\ trace[5].api = "requests.post"
    /\ trace[6].api = "time.sleep"

(* ---------------------------------------------------------------------- *)
(* C13                                                                    *)
(* ---------------------------------------------------------------------- *)

\* the positions of the li tags, in document order
ListItems(tree) ==
    SelectSeq([i \in 1..Len(tree) |-> i],
              LAMBDA i : tree[i].kind = "Tag" /\ tree[i].name = "li")

\* the list-item block type an li tag gives, by its immediate parent
ListItemType(tree, i) ==
    IF ParentName(tree, i) = "ol" THEN "numbered_list_item" ELSE "bulleted_list_item"

\* the types of the list-item blocks among blocks, in order
ListItemBlockTypes(blocks) ==
    LET items == SelectSeq(blocks, LAMBDA b : b.type \in {"numbered_list_item",
                                                          "bulleted_list_item"})
    IN  [k \in 1..Len(items) |-> items[k].type]

\* C13: in markdown_to_blocks the list-item blocks come only from li tags: the
\* numbered_list_item and bulleted_list_item blocks of the result are, in
\* document order, one per li tag, numbered when the immediate parent of the li
\* is ol and bulleted otherwise, and no tag that is not an li (the ol or ul
\* container included) gives one.  (Stated for the documents whose img tags
\* all have a src.)
C13_ListItemsFromLiOnly ==
    \A t \in 1..Len(trace) :
        (op = "markdown_to_blocks" /\ ImagesHaveSrc(input.soup)) =>
        /\ trace[t].raised = "none"
        /\ LET items == ListItems(input.soup)
           IN  ListItemBlockTypes(trace[t].value[1])
                 = [k \in 1..Len(items) |-> ListItemType(input.soup, items[k])]

(* ---------------------------------------------------------------------- *)
(* C14                                                                    *)
(* ---------------------------------------------------------------------- *)

\* the database object has a title array whose first span has a plain text
ParseableTitle(database) ==
    /\ "title" \in DOMAIN database.v
    /\ Len(database.v["title"].v) > 0
    /\ "plain_text" \in DOMAIN database.v["title"].v[1].v

\* the ids of the enumerated databases that have a parseable title, and of
\* those that have none, in enumeration order and without their dashes
IdsOfTitled(databases) ==
    LET titled == SelectSeq(databases, ParseableTitle)
    IN  [k \in 1..Len(titled) |-> RemoveDashes(titled[k].v["id"].v)]

IdsOfUntitled(databases) ==
    LET untitled == SelectSeq(databases, LAMBDA d : ~ParseableTitle(d))
    IN  [k \in 1..Len(untitled) |-> RemoveDashes(untitled[k].v["id"].v)]

\* the ids of a returned collection, without their dashes
CollectionIds(collection) ==
    [k \in 1..Len(collection) |-> RemoveDashes(collection[k].id)]

\* C14: either get_all_database_ids returns, never raises, and accounts for
\* every enumerated database: the first collection holds one record, with its
\* title, for each database that has a parseable title, the second one record,
\* with no title, for each database that has none, both in enumeration order,
\* and no database is in both; so also when the rename of a faulty database by
\* its parent's title fails.
C14_EveryDatabaseAccounted ==
    \A t \in 1..Len(trace) :
        op = "get_all_database_ids" =>
        /\ trace[t].raised = "none"
        /\ LET good == trace[t].value[1].database_collection
               bad == trace[t].value[1].bad_database_collection
           IN  /\ CollectionIds(good) = IdsOfTitled(input.databases)
               /\ CollectionIds(bad) = IdsOfUntitled(input.databases)
               /\ \A k \in 1..Len(good) : ~IsNone(good[k].title)
               /\ \A k \in 1..Len(bad) : IsNone(bad[k].title)
               /\ \A j \in 1..Len(good), k \in 1..Len(bad) :
                     RemoveDashes(good[j].id) /= RemoveDashes(bad[k].id)

====
